---- MODULE Spec2Model ----
(***************************************************************************)
(* The grid shortest-path finder dijkstra(graph, start, end) of            *)
(* python_example_364702.py, as a state machine.  Every local of a call    *)
(* is a function of the call's id, so that one module describes a single   *)
(* call as well as several calls in flight.                                *)
(***************************************************************************)
EXTENDS Integers, Sequences, FiniteSets, Bags, TLC

VARIABLES
    graph,            \* graph[c]: the 2D list given to call c (0 open, 1 obstacle)
    start,            \* start[c]: the (row, col) the call starts from
    end,              \* end[c]: the (row, col) the call looks for
    distances,        \* the dict of line 41, per frame
    previous_nodes,   \* the dict of line 46, per frame
    priority_queue,   \* the heap of line 50, per frame, as a bag of (distance, node)
    current_distance, \* line 54
    current_node,     \* line 54, and the cursor of the walk of lines 63-65
    k,                \* index into the neighbors list of line 72 (1..4)
    path,             \* line 62
    result,           \* the value the call returned
    pc,               \* where each call is
    pushed,           \* history: every entry put on the heap, in order
    popped            \* history: every entry heappop returned, in order, each
                      \* with the distance its cell had on record at that pop

inputs == <<graph, start, end>>
frames == <<distances, previous_nodes, priority_queue>>
locals == <<current_distance, current_node, k, path>>
history == <<pushed, popped>>
vars == <<graph, start, end, distances, previous_nodes, priority_queue,
          current_distance, current_node, k, path, result, pc, pushed, popped>>

\* ------------------------------------------------------------------ bounds
MaxSide == 3
MaxCells == 9

\* ------------------------------------------------------------ the data model
\* float('inf') of line 41
Inf == 1000000

\* rows, cols = len(graph), len(graph[0])
Rows(g) == Len(g)
Cols(g) == Len(g[1])

\* mutant: range(rows - 1), so the last row gets no key
CellsOfButLastRow(g) == {<<r, c>> : r \in 0 .. Rows(g) - 2, c \in 0 .. Cols(g) - 1}

\* the keys (r, c) for r in range(rows) for c in range(cols)
CellsOf(g) == {<<r, c>> : r \in 0 .. Rows(g) - 1, c \in 0 .. Cols(g) - 1}

\* l[i] of a Python list: zero-based, a negative i counts from the end, and
\* an i outside -len(l) .. len(l) - 1 raises IndexError
IndexInRange(l, i) == -Len(l) <= i /\ i < Len(l)
ListItem(l, i) == IF i >= 0 THEN l[i + 1] ELSE l[Len(l) + i + 1]

\* graph[row][col]
At(g, n) == ListItem(ListItem(g, n[1]), n[2])

\* mutant: the lower bounds tested with < for <=, so row 0 and column 0 are
\* taken to be outside the grid
InBoundsFromOne(g, n) == 0 < n[1] /\ n[1] < Rows(g) /\ 0 < n[2] /\ n[2] < Cols(g)

\* 0 <= neighbor_row < rows and 0 <= neighbor_col < cols
InBounds(g, n) == 0 <= n[1] /\ n[1] < Rows(g) /\ 0 <= n[2] /\ n[2] < Cols(g)

\* mutant: the obstacle test of line 79 left out
TraversableAnyCell(g, n) == At(g, n) \in {0, 1}

\* graph[neighbor_row][neighbor_col] == 0
Traversable(g, n) == At(g, n) = 0

\* mutant: the last move repeats the third, so no move to the right
\* mutant: the first neighbour is the cell up and to the left
NeighborsUpLeft(n) ==
    << <<n[1] - 1, n[2] - 1>>, <<n[1] + 1, n[2]>>, <<n[1], n[2] - 1>>, <<n[1], n[2] + 1>> >>

NeighborsNoRight(n) ==
    << <<n[1] - 1, n[2]>>, <<n[1] + 1, n[2]>>, <<n[1], n[2] - 1>>, <<n[1], n[2] - 1>> >>

\* neighbors = [(row - 1, col), (row + 1, col), (row, col - 1), (row, col + 1)]
Neighbors(n) ==
    << <<n[1] - 1, n[2]>>, <<n[1] + 1, n[2]>>, <<n[1], n[2] - 1>>, <<n[1], n[2] + 1>> >>

\* a dict with no key
EmptyDict == [x \in {} |-> x]

\* d[key] = v
DictSet(d, key, v) == [x \in DOMAIN d \cup {key} |-> IF x = key THEN v ELSE d[x]]

\* mutant: start gets its 0 only when it is a cell of the grid
InitialDistancesOfCells(g, s) == [n \in CellsOf(g) |-> IF n = s THEN 0 ELSE Inf]

\* mutant: line 42 left out
InitialDistancesAllInf(g, s) == [n \in CellsOf(g) |-> Inf]

\* {(r, c): float('inf') ...}; distances[start] = 0
InitialDistances(g, s) == DictSet([n \in CellsOf(g) |-> Inf], s, 0)

\* mutant: the order of tuples that hold the cell first, (cell, distance)
EntryLessByCell(a, b) ==
    \/ a[2][1] < b[2][1]
    \/ /\ a[2][1] = b[2][1]
       /\ \/ a[2][2] < b[2][2]
          \/ a[2][2] = b[2][2] /\ a[1] < b[1]

\* Python's order on the tuples (distance, (row, col)) the heap holds
EntryLess(a, b) ==
    \/ a[1] < b[1]
    \/ /\ a[1] = b[1]
       /\ \/ a[2][1] < b[2][1]
          \/ a[2][1] = b[2][1] /\ a[2][2] < b[2][2]

\* mutant: a heap that hands out its largest item
HeapPopLargest(pq) == {x \in BagToSet(pq) : \A y \in BagToSet(pq) : ~EntryLess(x, y)}

\* heapq.heappop returns the smallest item of the heap
HeapPop(pq) == {x \in BagToSet(pq) : \A y \in BagToSet(pq) : ~EntryLess(y, x)}

\* mutant: a queue that hands out any of its entries, whatever the distance
AnyEntryPop(pq) == BagToSet(pq)

\* a heap whose ties in distance may fall either way
AnyTiePop(pq) == {x \in BagToSet(pq) : \A y \in BagToSet(pq) : y[1] >= x[1]}

\* heapq.heappush(priority_queue, item)
HeapPush(pq, item) == pq (+) SetToBag({item})

HeapRemove(pq, item) == pq (-) SetToBag({item})

\* mutant: the path handed back as collected, end first
NotReversed(s) == s

\* path[::-1]
RECURSIVE Reversed(_)
Reversed(s) == IF s = <<>> THEN <<>> ELSE Append(Reversed(Tail(s)), Head(s))

\* the values a call can hand back
Pending == [kind |-> "pending"]
None == [kind |-> "None"]
PathResult(p) == [kind |-> "list", cells |-> p]

\* mutant: the three containers kept at module level, one set for all calls
SharedFrame(c) == 1

\* the frame that holds call c's distances, previous_nodes and priority_queue:
\* the three are created inside the call, so every call has its own
Frame(c) == c

Calls == DOMAIN pc

\* ------------------------------------------------------------------- inputs
\* a 2D list with at least one row, all rows of the length of the first
Rectangular(g) == Len(g) >= 1 /\ Len(g[1]) >= 1 /\ \A r \in 1 .. Len(g) : Len(g[r]) = Len(g[1])

AllCells(g) == UNION {{<<r - 1, col - 1>> : col \in 1 .. Len(g[r])} : r \in 1 .. Len(g)}

\* n is a cell of the grid and holds 0
IsOpen(g, n) ==
    /\ n[1] \in 0 .. Len(g) - 1
    /\ n[2] \in 0 .. Len(g[n[1] + 1]) - 1
    /\ g[n[1] + 1][n[2] + 1] = 0

OpenCells(g) == {n \in AllCells(g) : IsOpen(g, n)}

\* the rectangular grids of at most n cells, no side longer than MaxSide
GridsUpTo(n) ==
    UNION {[1 .. d[1] -> [1 .. d[2] -> {0, 1}]] :
              d \in {d \in (1 .. MaxSide) \X (1 .. MaxSide) : d[1] * d[2] <= n}}

Grids == GridsUpTo(MaxCells)

Input(g, s, e) == [graph |-> g, start |-> s, end |-> e]

\* g with an obstacle put on cell x
AddObstacle(g, x) == [g EXCEPT ![x[1] + 1][x[2] + 1] = 1]

\* calls about to run, one per element of ins
InitCalls(ins) ==
    /\ graph = [c \in DOMAIN ins |-> ins[c].graph]
    /\ start = [c \in DOMAIN ins |-> ins[c].start]
    /\ end = [c \in DOMAIN ins |-> ins[c].end]
    /\ distances = [c \in DOMAIN ins |-> EmptyDict]
    /\ previous_nodes = [c \in DOMAIN ins |-> EmptyDict]
    /\ priority_queue = [c \in DOMAIN ins |-> EmptyBag]
    /\ current_distance = [c \in DOMAIN ins |-> 0]
    /\ current_node = [c \in DOMAIN ins |-> ins[c].start]
    /\ k = [c \in DOMAIN ins |-> 0]
    /\ path = [c \in DOMAIN ins |-> <<>>]
    /\ result = [c \in DOMAIN ins |-> Pending]
    /\ pc = [c \in DOMAIN ins |-> "call"]
    /\ pushed = [c \in DOMAIN ins |-> <<>>]
    /\ popped = [c \in DOMAIN ins |-> <<>>]

Init ==
    \E g \in Grids : \E s \in OpenCells(g), e \in OpenCells(g) : InitCalls(<<Input(g, s, e)>>)

\* ------------------------------------------------------------------ actions
\* the neighbour the for loop of line 74 is at
NeighborNode(c) == Neighbors(current_node[c])[k[c]]

\* the lookups of the next step of call c that would raise: graph[0] at
\* line 37, distances[current_node] at line 57, graph[neighbor_row][neighbor_col]
\* at line 79, distances[neighbor_node] at line 85
Raises(c) ==
    \/ pc[c] = "call" /\ ~IndexInRange(graph[c], 0)
    \/ /\ pc[c] = "loop"
       /\ \E x \in HeapPop(priority_queue[Frame(c)]) : x[2] \notin DOMAIN distances[Frame(c)]
    \/ /\ pc[c] = "neighbors"
       /\ InBounds(graph[c], NeighborNode(c))
       /\ IF ~IndexInRange(graph[c], NeighborNode(c)[1])
          THEN TRUE
          ELSE IF ~IndexInRange(ListItem(graph[c], NeighborNode(c)[1]), NeighborNode(c)[2])
          THEN TRUE
          ELSE /\ Traversable(graph[c], NeighborNode(c))
               /\ NeighborNode(c) \notin DOMAIN distances[Frame(c)]

\* the exception such a lookup raises: IndexError from a list, KeyError from
\* a dict
Exception(c) ==
    IF pc[c] = "call"
    THEN "IndexError"
    ELSE IF pc[c] = "loop"
    THEN "KeyError"
    ELSE IF ~IndexInRange(graph[c], NeighborNode(c)[1])
    THEN "IndexError"
    ELSE IF ~IndexInRange(ListItem(graph[c], NeighborNode(c)[1]), NeighborNode(c)[2])
    THEN "IndexError"
    ELSE "KeyError"

\* the call ends with the exception; nothing in dijkstra catches it
Raise(c) ==
    /\ Raises(c)
    /\ result' = [result EXCEPT ![c] = [kind |-> "raise", error |-> Exception(c)]]
    /\ pc' = [pc EXCEPT ![c] = "raised"]
    /\ UNCHANGED <<inputs, frames, locals, history>>

\* lines 37-50: the three containers are built and the heap is seeded
Enter(c) ==
    /\ pc[c] = "call"
    /\ ~Raises(c)
    /\ distances' = [distances EXCEPT ![Frame(c)] = InitialDistances(graph[c], start[c])]
    /\ previous_nodes' = [previous_nodes EXCEPT ![Frame(c)] = EmptyDict]
    /\ priority_queue' = [priority_queue EXCEPT ![Frame(c)] = SetToBag({<<0, start[c]>>})]
    /\ pushed' = [pushed EXCEPT ![c] = << <<0, start[c]>> >>]
    /\ pc' = [pc EXCEPT ![c] = "loop"]
    /\ UNCHANGED <<inputs, locals, result, popped>>

\* mutant: >= for > in the staleness test
StaleOrEqual(c, x) == x[1] >= distances[Frame(c)][x[2]]

\* if current_distance > distances[current_node]: continue
Stale(c, x) == x[1] > distances[Frame(c)][x[2]]

\* lines 54-72: heappop hands out x; a stale entry is dropped, end starts the
\* walk back, any other node gets its neighbours looked at
Pop(c, x) ==
    /\ pc[c] = "loop"
    /\ priority_queue[Frame(c)] # EmptyBag
    /\ x[2] \in DOMAIN distances[Frame(c)]
    /\ current_distance' = [current_distance EXCEPT ![c] = x[1]]
    /\ current_node' = [current_node EXCEPT ![c] = x[2]]
    /\ priority_queue' = [priority_queue EXCEPT ![Frame(c)] = HeapRemove(@, x)]
    /\ popped' = [popped EXCEPT ![c] = Append(@, <<x[1], x[2], distances[Frame(c)][x[2]]>>)]
    /\ IF Stale(c, x)
       THEN pc' = pc /\ k' = k /\ path' = path
       ELSE IF x[2] = end[c]
       THEN /\ pc' = [pc EXCEPT ![c] = "reconstruct"]
            /\ path' = [path EXCEPT ![c] = <<>>]
            /\ k' = k
       ELSE /\ pc' = [pc EXCEPT ![c] = "neighbors"]
            /\ k' = [k EXCEPT ![c] = 1]
            /\ path' = path
    /\ UNCHANGED <<inputs, distances, previous_nodes, result, pushed>>

\* mutant: <= for < in the test of line 85
ShorterOrEqual(c) ==
    /\ InBounds(graph[c], NeighborNode(c))
    /\ Traversable(graph[c], NeighborNode(c))
    /\ current_distance[c] + 1 <= distances[Frame(c)][NeighborNode(c)]

\* mutant: != for < in the test of line 85
ShorterOrLonger(c) ==
    /\ InBounds(graph[c], NeighborNode(c))
    /\ Traversable(graph[c], NeighborNode(c))
    /\ current_distance[c] + 1 # distances[Frame(c)][NeighborNode(c)]

\* lines 76, 79 and 85 together
Shorter(c) ==
    /\ InBounds(graph[c], NeighborNode(c))
    /\ Traversable(graph[c], NeighborNode(c))
    /\ current_distance[c] + 1 < distances[Frame(c)][NeighborNode(c)]

\* the for loop moves on, or ends and the while loop takes over
NextNeighbor(c) ==
    IF k[c] < 4
    THEN k' = [k EXCEPT ![c] = @ + 1] /\ pc' = pc
    ELSE k' = k /\ pc' = [pc EXCEPT ![c] = "loop"]

\* mutant: the relaxed neighbour is also marked as seen in the grid itself
RelaxMarkingGrid(c) ==
    /\ pc[c] = "neighbors"
    /\ ~Raises(c)
    /\ Shorter(c)
    /\ LET new_distance == current_distance[c] + 1
           neighbor_node == NeighborNode(c)
       IN  /\ distances' = [distances EXCEPT ![Frame(c)] = DictSet(@, neighbor_node, new_distance)]
           /\ previous_nodes' =
                  [previous_nodes EXCEPT ![Frame(c)] = DictSet(@, neighbor_node, current_node[c])]
           /\ priority_queue' =
                  [priority_queue EXCEPT ![Frame(c)] = HeapPush(@, <<new_distance, neighbor_node>>)]
           /\ pushed' = [pushed EXCEPT ![c] = Append(@, <<new_distance, neighbor_node>>)]
           /\ graph' = [graph EXCEPT ![c][neighbor_node[1] + 1][neighbor_node[2] + 1] = 2]
    /\ NextNeighbor(c)
    /\ UNCHANGED <<start, end, current_distance, current_node, path, result, popped>>

\* mutant: line 89 left out
RelaxWithoutPush(c) ==
    /\ pc[c] = "neighbors"
    /\ ~Raises(c)
    /\ Shorter(c)
    /\ LET new_distance == current_distance[c] + 1
           neighbor_node == NeighborNode(c)
       IN  /\ distances' = [distances EXCEPT ![Frame(c)] = DictSet(@, neighbor_node, new_distance)]
           /\ previous_nodes' =
                  [previous_nodes EXCEPT ![Frame(c)] = DictSet(@, neighbor_node, current_node[c])]
           /\ priority_queue' = priority_queue
           /\ pushed' = pushed
    /\ NextNeighbor(c)
    /\ UNCHANGED <<inputs, current_distance, current_node, path, result, popped>>

\* lines 82-89
Relax(c) ==
    /\ pc[c] = "neighbors"
    /\ ~Raises(c)
    /\ Shorter(c)
    /\ LET new_distance == current_distance[c] + 1
           neighbor_node == NeighborNode(c)
       IN  /\ distances' = [distances EXCEPT ![Frame(c)] = DictSet(@, neighbor_node, new_distance)]
           /\ previous_nodes' =
                  [previous_nodes EXCEPT ![Frame(c)] = DictSet(@, neighbor_node, current_node[c])]
           /\ priority_queue' =
                  [priority_queue EXCEPT ![Frame(c)] = HeapPush(@, <<new_distance, neighbor_node>>)]
           /\ pushed' = [pushed EXCEPT ![c] = Append(@, <<new_distance, neighbor_node>>)]
    /\ NextNeighbor(c)
    /\ UNCHANGED <<inputs, current_distance, current_node, path, result, popped>>

\* lines 74-85 when one of the three tests fails
Skip(c) ==
    /\ pc[c] = "neighbors"
    /\ ~Raises(c)
    /\ ~Shorter(c)
    /\ NextNeighbor(c)
    /\ UNCHANGED <<inputs, frames, current_distance, current_node, path, result, history>>

\* lines 63-65: one turn of the walk back along previous_nodes
WalkBack(c) ==
    /\ pc[c] = "reconstruct"
    /\ current_node[c] \in DOMAIN previous_nodes[Frame(c)]
    /\ path' = [path EXCEPT ![c] = Append(@, current_node[c])]
    /\ current_node' = [current_node EXCEPT ![c] = previous_nodes[Frame(c)][current_node[c]]]
    /\ UNCHANGED <<inputs, frames, current_distance, k, result, pc, history>>

\* lines 66-67
ReturnPath(c) ==
    /\ pc[c] = "reconstruct"
    /\ current_node[c] \notin DOMAIN previous_nodes[Frame(c)]
    /\ path' = [path EXCEPT ![c] = Append(@, start[c])]
    /\ result' = [result EXCEPT ![c] = PathResult(Reversed(Append(path[c], start[c])))]
    /\ pc' = [pc EXCEPT ![c] = "done"]
    /\ UNCHANGED <<inputs, frames, current_distance, current_node, k, history>>

\* lines 52 and 92: the heap is empty
ReturnNone(c) ==
    /\ pc[c] = "loop"
    /\ priority_queue[Frame(c)] = EmptyBag
    /\ result' = [result EXCEPT ![c] = None]
    /\ pc' = [pc EXCEPT ![c] = "done"]
    /\ UNCHANGED <<inputs, frames, locals, history>>

\* a call steps only once the calls made before it have returned
InTurn(c) == \A b \in Calls : b < c => pc[b] = "done"

\* one call of dijkstra, or several with their steps interleaved; the heap is
\* heapq
Next ==
    \/ \E c \in Calls : Enter(c)
    \/ \E c \in Calls : \E x \in HeapPop(priority_queue[Frame(c)]) : Pop(c, x)
    \/ \E c \in Calls : Relax(c)
    \/ \E c \in Calls : Skip(c)
    \/ \E c \in Calls : WalkBack(c)
    \/ \E c \in Calls : ReturnPath(c)
    \/ \E c \in Calls : ReturnNone(c)

\* calls made one after the other
NextInTurn ==
    \/ \E c \in Calls : InTurn(c) /\ Enter(c)
    \/ \E c \in Calls : InTurn(c) /\ \E x \in HeapPop(priority_queue[Frame(c)]) : Pop(c, x)
    \/ \E c \in Calls : InTurn(c) /\ Relax(c)
    \/ \E c \in Calls : InTurn(c) /\ Skip(c)
    \/ \E c \in Calls : InTurn(c) /\ WalkBack(c)
    \/ \E c \in Calls : InTurn(c) /\ ReturnPath(c)
    \/ \E c \in Calls : InTurn(c) /\ ReturnNone(c)

\* calls made one after the other, over a heap that breaks ties in distance
\* any way it likes
NextAnyTie ==
    \/ \E c \in Calls : InTurn(c) /\ Enter(c)
    \/ \E c \in Calls : InTurn(c) /\ \E x \in AnyTiePop(priority_queue[Frame(c)]) : Pop(c, x)
    \/ \E c \in Calls : InTurn(c) /\ Relax(c)
    \/ \E c \in Calls : InTurn(c) /\ Skip(c)
    \/ \E c \in Calls : InTurn(c) /\ WalkBack(c)
    \/ \E c \in Calls : InTurn(c) /\ ReturnPath(c)
    \/ \E c \in Calls : InTurn(c) /\ ReturnNone(c)

Spec == Init /\ [][Next]_vars

\* one call on any input, a lookup that fails ending it
NextOrRaise ==
    \/ \E c \in Calls : Enter(c)
    \/ \E c \in Calls : \E x \in HeapPop(priority_queue[Frame(c)]) : Pop(c, x)
    \/ \E c \in Calls : Relax(c)
    \/ \E c \in Calls : Skip(c)
    \/ \E c \in Calls : WalkBack(c)
    \/ \E c \in Calls : ReturnPath(c)
    \/ \E c \in Calls : ReturnNone(c)
    \/ \E c \in Calls : Raise(c)

\* ---------------------------------------------------- dijkstra as a function
\* the for loop of lines 74-89 from the i-th neighbour on; f holds the three
\* containers
RECURSIVE ForNeighbors(_, _, _, _, _)
ForNeighbors(g, f, node, dist, i) ==
    IF i > 4
    THEN f
    ELSE LET n == Neighbors(node)[i]
         IN  IF InBounds(g, n) /\ Traversable(g, n) /\ dist + 1 < f.distances[n]
             THEN ForNeighbors(g,
                               [distances |-> DictSet(f.distances, n, dist + 1),
                                previous_nodes |-> DictSet(f.previous_nodes, n, node),
                                priority_queue |-> HeapPush(f.priority_queue, <<dist + 1, n>>)],
                               node, dist, i + 1)
             ELSE ForNeighbors(g, f, node, dist, i + 1)

\* the while loop of lines 63-65
RECURSIVE WalkFrom(_, _, _)
WalkFrom(prev, node, p) ==
    IF node \in DOMAIN prev THEN WalkFrom(prev, prev[node], Append(p, node)) ELSE p

\* the while loop of lines 52-92
RECURSIVE WhileQueue(_, _, _, _)
WhileQueue(g, s, e, f) ==
    IF f.priority_queue = EmptyBag
    THEN None
    ELSE LET x == CHOOSE x \in HeapPop(f.priority_queue) : TRUE
             rest == [f EXCEPT !.priority_queue = HeapRemove(@, x)]
         IN  IF x[1] > f.distances[x[2]]
             THEN WhileQueue(g, s, e, rest)
             ELSE IF x[2] = e
             THEN PathResult(Reversed(Append(WalkFrom(f.previous_nodes, x[2], <<>>), s)))
             ELSE WhileQueue(g, s, e, ForNeighbors(g, rest, x[2], x[1], 1))

\* what dijkstra(g, s, e) returns when nothing else runs
Dijkstra(g, s, e) ==
    WhileQueue(g, s, e,
               [distances |-> InitialDistances(g, s),
                previous_nodes |-> EmptyDict,
                priority_queue |-> SetToBag({<<0, s>>})])

\* -------------------------------------------------------- two calls at once
\* bounds on the cells of the grids given to two calls
TwoCells == 4
PairCells == 6

\* two calls with their steps interleaved: the same search twice, two
\* searches on one grid, or the second on the grid with one more obstacle
InitTwo ==
    \E g \in GridsUpTo(TwoCells) : \E s \in OpenCells(g), e \in OpenCells(g) :
        \/ \E s2 \in OpenCells(g), e2 \in OpenCells(g) :
              InitCalls(<<Input(g, s, e), Input(g, s2, e2)>>)
        \/ \E x \in OpenCells(g) \ {s, e} :
              InitCalls(<<Input(g, s, e), Input(AddObstacle(g, x), s, e)>>)

SpecTwo == InitTwo /\ [][Next]_vars

\* one call on a grid, then one on the grid with one more obstacle
InitObstacle ==
    \E g \in GridsUpTo(PairCells) : \E s \in OpenCells(g), e \in OpenCells(g) :
        \E x \in OpenCells(g) \ {s, e} :
            InitCalls(<<Input(g, s, e), Input(AddObstacle(g, x), s, e)>>)

SpecObstacle == InitObstacle /\ [][NextInTurn]_vars

\* the same call made twice, over a heap that breaks ties any way it likes
InitTwice ==
    \E g \in GridsUpTo(PairCells) : \E s \in OpenCells(g), e \in OpenCells(g) :
        InitCalls(<<Input(g, s, e), Input(g, s, e)>>)

SpecAnyTie == InitTwice /\ [][NextAnyTie]_vars

\* ------------------------------------------------- inputs off the contract
\* the cells of g and the ring of coordinates one step outside it
CellsAndRing(g) == (-1 .. Len(g)) \X (-1 .. Len(g[1]))

\* one call on a rectangular grid whose start or end is outside the grid or
\* on an obstacle
InitInvalid ==
    \E g \in GridsUpTo(TwoCells) : \E s \in CellsAndRing(g), e \in CellsAndRing(g) :
        /\ ~(IsOpen(g, s) /\ IsOpen(g, e))
        /\ InitCalls(<<Input(g, s, e)>>)

SpecInvalid == InitInvalid /\ [][Next]_vars

\* the 2D lists of at most n cells, rows of any length up to MaxSide, the
\* list with no row among them
ListsUpTo(n) ==
    LET rows == UNION {[1 .. len -> {0, 1}] : len \in 0 .. MaxSide}
        RECURSIVE Total(_)
        Total(g) == IF g = <<>> THEN 0 ELSE Len(Head(g)) + Total(Tail(g))
    IN  {g \in UNION {[1 .. r -> rows] : r \in 0 .. MaxSide} : Total(g) <= n}

\* one call on a 2D list that is empty or whose rows differ in length
InitMalformed ==
    \E g \in ListsUpTo(TwoCells) : \E s \in (0 .. 1) \X (0 .. 1), e \in (0 .. 1) \X (0 .. 1) :
        /\ ~Rectangular(g)
        /\ InitCalls(<<Input(g, s, e)>>)

SpecMalformed == InitMalformed /\ [][NextOrRaise]_vars

\* -------------------------------------------------------- the shipped example
GAME_MAP ==
    << <<0, 0, 0, 0, 1, 0, 0, 0>>,
       <<0, 1, 0, 0, 1, 0, 1, 0>>,
       <<0, 1, 0, 0, 0, 0, 0, 0>>,
       <<0, 0, 0, 1, 1, 0, 1, 0>>,
       <<0, 1, 0, 0, 0, 0, 0, 0>>,
       <<0, 0, 0, 1, 0, 1, 0, 0>>,
       <<0, 0, 0, 0, 0, 0, 0, 0>> >>

player_position == <<6, 6>>
ai_position == <<0, 0>>

\* dijkstra(GAME_MAP, ai_position, player_position), and the same call with
\* the player on any other cell of the map
InitExample ==
    \E player \in {player_position} \cup AllCells(GAME_MAP) :
        InitCalls(<<Input(GAME_MAP, ai_position, player)>>)

\* the interpreter runs the call for as long as it has a step to take
SpecExample == InitExample /\ [][Next]_vars /\ WF_vars(Next)

\* one call on a rectangular grid with any start and end; the interpreter
\* runs the call for as long as it has a step to take
InitAnyEndpoints == Init \/ InitInvalid

SpecRunning == InitAnyEndpoints /\ [][Next]_vars /\ WF_vars(Next)

\* ------------------------------------------------------- a wall with a gap
\* bound on the sides of the walled grids
WallSide == 4

\* the open grid of r rows and c columns with row 1 blocked in every column
\* but gap (a gap outside the grid leaves the wall whole)
WallGrid(r, c, gap) == [i \in 1 .. r |-> [j \in 1 .. c |-> IF i = 2 /\ j # gap + 1 THEN 1 ELSE 0]]

\* one call from the row above the wall to the last row
InitWall ==
    \E r \in 3 .. WallSide, c \in 3 .. WallSide : \E gap \in 0 .. c :
        \E sc \in 0 .. c - 1, ec \in 0 .. c - 1 :
            InitCalls(<<Input(WallGrid(r, c, gap), <<0, sc>>, <<r - 1, ec>>)>>)

SpecWall == InitWall /\ [][Next]_vars

\* ------------------------------------------- what the claims are stated with
Abs(i) == IF i < 0 THEN -i ELSE i

Manhattan(a, b) == Abs(a[1] - b[1]) + Abs(a[2] - b[2])

\* one move up, down, left or right
Adjacent(a, b) == Manhattan(a, b) = 1

\* the cells one move away from a cell of B, open cells only
Around(g, B) == {m \in AllCells(g) : IsOpen(g, m) /\ \E b \in B : Adjacent(b, m)}

\* B holds the cells that 4-directional paths of at most n hops reach from the
\* first cell, every later cell of a path being open; the least n at which e
\* is among them is the minimum hop count over all such paths to e (-1 when there is none)
RECURSIVE HopsFrom(_, _, _, _)
HopsFrom(g, B, e, n) ==
    IF e \in B
    THEN n
    ELSE IF Around(g, B) \subseteq B THEN -1 ELSE HopsFrom(g, B \cup Around(g, B), e, n + 1)

ShortestHops(g, s, e) == HopsFrom(g, {s}, e, 0)

Reachable(g, s, e) == ShortestHops(g, s, e) >= 0

\* the n+1 sets of cells at which the 4-directional paths of exactly 0, 1, ..
\* n hops from s end, every cell after s being open
RECURSIVE WalkEnds(_, _, _)
WalkEnds(g, s, n) ==
    IF n = 0
    THEN << {s} >>
    ELSE LET shorter == WalkEnds(g, s, n - 1)
         IN  Append(shorter, Around(g, shorter[n]))

\* the cells a distance map has a finite value for, and the largest of these
\* values
Finite(d) == {n \in DOMAIN d : d[n] # Inf}
Farthest(d) == CHOOSE far \in {d[n] : n \in Finite(d)} : \A n \in Finite(d) : d[n] <= far

\* the input of call c is as the contract wants it
WellFormed(c) ==
    /\ Rectangular(graph[c])
    /\ IsOpen(graph[c], start[c])
    /\ IsOpen(graph[c], end[c])

Returned(c) == pc[c] = "done"
ReturnedPath(c) == Returned(c) /\ result[c].kind = "list"
ReturnedNone(c) == Returned(c) /\ result[c] = None
Hops(c) == Len(result[c].cells) - 1

\* ------------------------------------------------------------------ claims
\* C1: whenever a call on a rectangular grid with in-bounds traversable start
\* and end returns a path, the path's hop count (cells minus 1) is the minimum
\* hop count over all 4-directional paths from start to end on traversable cells.
C1_ReturnedPathIsShortest ==
    \A c \in Calls :
        (WellFormed(c) /\ ReturnedPath(c)) =>
            Hops(c) = ShortestHops(graph[c], start[c], end[c])

\* a returned path that obstacles made longer than the straight way
C1_Witness ==
    \E c \in Calls :
        /\ WellFormed(c) /\ ReturnedPath(c)
        /\ Hops(c) > Manhattan(start[c], end[c])
        /\ Hops(c) = ShortestHops(graph[c], start[c], end[c])

\* C2: when no 4-directional path over traversable cells joins start to end,
\* the call returns None, and no step of it raises (stated the other way
\* round: a step that raises, or a return of anything but None, only when
\* some path joins them).
C2_UnreachableReturnsNone ==
    \A c \in Calls :
        /\ (WellFormed(c) /\ Raises(c)) => Reachable(graph[c], start[c], end[c])
        /\ (WellFormed(c) /\ Returned(c) /\ result[c] # None) =>
               Reachable(graph[c], start[c], end[c])

\* None returned for an end with an obstacle on every side the grid gives it,
\* after the search has gone over the cells on start's side of the wall
C2_Witness ==
    \E c \in Calls :
        /\ WellFormed(c) /\ ReturnedNone(c)
        /\ \A i \in 1 .. 4 : ~IsOpen(graph[c], Neighbors(end[c])[i])
        /\ \E i \in 1 .. 4 : Neighbors(end[c])[i] \in AllCells(graph[c])
        /\ Len(popped[c]) >= 3

\* C3: when some 4-directional path over traversable cells joins start to end,
\* the heap is never found empty by the loop test and the call returns a path.
C3_ReachableReturnsPath ==
    \A c \in Calls :
        /\ (WellFormed(c) /\ pc[c] = "loop" /\ priority_queue[Frame(c)] = EmptyBag) =>
               ~Reachable(graph[c], start[c], end[c])
        /\ (WellFormed(c) /\ Returned(c) /\ result[c].kind # "list") =>
               ~Reachable(graph[c], start[c], end[c])

\* a path returned on a grid with an obstacle, end four or more hops away
C3_Witness ==
    \E c \in Calls :
        /\ WellFormed(c) /\ ReturnedPath(c)
        /\ Reachable(graph[c], start[c], end[c])
        /\ \E m \in AllCells(graph[c]) : ~IsOpen(graph[c], m)
        /\ Hops(c) >= 4

\* the sequence p runs from s to e by single moves over open cells of g
IsWalk(g, p, s, e) ==
    /\ Len(p) >= 1
    /\ p[1] = s
    /\ p[Len(p)] = e
    /\ \A i \in 1 .. Len(p) : IsOpen(g, p[i])
    /\ \A i \in 1 .. Len(p) - 1 : Adjacent(p[i], p[i + 1])

\* C4: a returned path starts at start, ends at end, moves one step up, down,
\* left or right between consecutive cells, and stays on in-bounds traversable cells.
C4_ReturnedPathIsWalk ==
    \A c \in Calls :
        (WellFormed(c) /\ ReturnedPath(c)) =>
            IsWalk(graph[c], result[c].cells, start[c], end[c])

\* a returned path of at least four cells that turns a corner
C4_Witness ==
    \E c \in Calls :
        /\ WellFormed(c) /\ ReturnedPath(c)
        /\ Len(result[c].cells) >= 4
        /\ start[c][1] # end[c][1] /\ start[c][2] # end[c][2]
        /\ IsWalk(graph[c], result[c].cells, start[c], end[c])

\* C5: a call with start = end returns exactly [start], on its first pop, and
\* never looks at a neighbour, changes a distance or pushes an entry.
C5_StartIsEnd ==
    \A c \in Calls :
        (WellFormed(c) /\ start[c] = end[c]) =>
            /\ pc[c] # "neighbors"
            /\ Len(popped[c]) <= 1
            /\ pc[c] # "call" =>
                  /\ pushed[c] = << <<0, start[c]>> >>
                  /\ previous_nodes[Frame(c)] = EmptyDict
                  /\ \A n \in DOMAIN distances[Frame(c)] :
                        distances[Frame(c)][n] = IF n = start[c] THEN 0 ELSE Inf
            /\ Returned(c) => result[c] = PathResult(<<start[c]>>) /\ Len(popped[c]) = 1

\* [start] returned on a grid where start has an open neighbour
C5_Witness ==
    \E c \in Calls :
        /\ WellFormed(c) /\ start[c] = end[c]
        /\ result[c] = PathResult(<<start[c]>>)
        /\ Returned(c)
        /\ \E m \in AllCells(graph[c]) : IsOpen(graph[c], m) /\ Adjacent(m, start[c])

NoObstacle(g) == \A n \in AllCells(g) : IsOpen(g, n)

\* C6: on a rectangular grid without obstacles the call returns a path whose
\* hop count is |start.row - end.row| + |start.col - end.col|.
C6_OpenGridManhattan ==
    \A c \in Calls :
        (WellFormed(c) /\ NoObstacle(graph[c]) /\ Returned(c)) =>
            /\ result[c].kind = "list"
            /\ Hops(c) = Manhattan(start[c], end[c])

\* the 3x3 open grid from (0,0) to (2,2): a path of 5 cells
C6_Witness ==
    \E c \in Calls :
        /\ NoObstacle(graph[c]) /\ Len(graph[c]) = 3 /\ Len(graph[c][1]) = 3
        /\ start[c] = <<0, 0>> /\ end[c] = <<2, 2>>
        /\ ReturnedPath(c)
        /\ Len(result[c].cells) = 5

\* C9: no step of a call changes a cell of the grid it was given.
C9_GridUnchanged == [][\A c \in Calls : graph'[c] = graph[c]]_vars

\* a call that relaxed neighbours and returned, its grid still rectangular
C9_Witness ==
    \E c \in Calls :
        /\ Returned(c) /\ Len(pushed[c]) >= 4
        /\ Rectangular(graph[c])

\* C7: when the second call runs on the first call's grid with one more cell,
\* other than start and end, turned into an obstacle, and both calls return a
\* path, the second path has at least as many hops as the first.
C7_ObstacleNeverShortens ==
    \A a \in Calls, b \in Calls :
        (/\ WellFormed(a) /\ WellFormed(b)
         /\ start[b] = start[a] /\ end[b] = end[a]
         /\ \E x \in OpenCells(graph[a]) \ {start[a], end[a]} : graph[b] = AddObstacle(graph[a], x)
         /\ ReturnedPath(a) /\ ReturnedPath(b)) =>
            Hops(b) >= Hops(a)

\* the added obstacle forced a longer path
C7_Witness ==
    \E a \in Calls, b \in Calls :
        /\ WellFormed(a) /\ WellFormed(b)
        /\ start[b] = start[a] /\ end[b] = end[a]
        /\ \E x \in OpenCells(graph[a]) \ {start[a], end[a]} : graph[b] = AddObstacle(graph[a], x)
        /\ ReturnedPath(a) /\ ReturnedPath(b)
        /\ Hops(b) > Hops(a)

\* C8: two runs of the same call, each breaking the heap's ties in distance
\* in its own way, both return None or both return paths of the same hop count.
C8_TiesDoNotChangeLength ==
    \A a \in Calls, b \in Calls :
        (/\ graph[a] = graph[b] /\ start[a] = start[b] /\ end[a] = end[b]
         /\ Returned(a) /\ Returned(b)) =>
            /\ result[a].kind = result[b].kind
            /\ result[a].kind = "list" => Hops(a) = Hops(b)

\* the ties fell differently: two different paths, of the same hop count
C8_Witness ==
    \E a \in Calls, b \in Calls :
        /\ graph[a] = graph[b] /\ start[a] = start[b] /\ end[a] = end[b]
        /\ ReturnedPath(a) /\ ReturnedPath(b)
        /\ result[a].cells # result[b].cells
        /\ Hops(a) = Hops(b)

\* C10: a call returns what it returns when it runs alone, whatever the steps
\* another call takes in between, on the same grid or on another.
C10_CallsIndependent ==
    \A c \in Calls :
        Returned(c) => result[c] = Dijkstra(graph[c], start[c], end[c])

\* two calls on different grids, each past its second pop and in the middle
\* of its for loop at the same moment
C10_Witness ==
    \E a \in Calls, b \in Calls :
        /\ a # b
        /\ graph[a] # graph[b]
        /\ pc[a] = "neighbors" /\ Len(popped[a]) >= 2
        /\ pc[b] = "neighbors" /\ Len(popped[b]) >= 2

\* the call has run none of the search: it is still to start, or it was
\* turned away
NoSearchStep(c) == pc[c] \in {"call", "raised"} /\ pushed[c] = <<>> /\ popped[c] = <<>>

\* C11: a call whose start or end is outside the grid or on an obstacle is
\* rejected before any search step runs.
C11_InvalidEndpointRejected ==
    \A c \in Calls :
        (Rectangular(graph[c]) /\ ~(IsOpen(graph[c], start[c]) /\ IsOpen(graph[c], end[c]))) =>
            NoSearchStep(c)

\* C12: a call on an empty grid or on a grid whose rows differ in length is
\* rejected before the search begins.
C12_MalformedGridRejected ==
    \A c \in Calls : ~Rectangular(graph[c]) => NoSearchStep(c)

\* C13: on a non-empty rectangular grid with start and end on open cells no
\* step of the call raises, and the call ends with None or with a walk from
\* start to end over open cells.
C13_WellFormedNeverRaises ==
    \A c \in Calls :
        WellFormed(c) =>
            /\ ~Raises(c)
            /\ pc[c] # "raised"
            /\ Returned(c) =>
                  \/ result[c] = None
                  \/ /\ result[c].kind = "list"
                     /\ IsWalk(graph[c], result[c].cells, start[c], end[c])

\* a call that went over the bottom right corner of a 3x3 grid, where two of
\* the four neighbours are outside the grid, and returned
C13_Witness ==
    \E c \in Calls :
        /\ WellFormed(c) /\ Returned(c)
        /\ Len(graph[c]) = 3 /\ Len(graph[c][1]) = 3
        /\ \E i \in 1 .. Len(popped[c]) - 1 : popped[c][i][2] = <<2, 2>>

\* C14: on a grid of at least 3 rows and 3 columns whose row 1 is blocked in
\* every column but column 2, all other cells open, the call from (0,0) to
\* (2,0) returns a path that contains (1,2).
C14_PathThroughGap ==
    \A c \in Calls :
        (/\ Len(graph[c]) >= 3 /\ Len(graph[c][1]) >= 3
         /\ graph[c] = WallGrid(Len(graph[c]), Len(graph[c][1]), 2)
         /\ start[c] = <<0, 0>> /\ end[c] = <<2, 0>>
         /\ Returned(c)) =>
            /\ result[c].kind = "list"
            /\ \E i \in 1 .. Len(result[c].cells) : result[c].cells[i] = <<1, 2>>

\* the call returned on such a grid that has more columns than three, so the
\* gap is not at the end of the wall
C14_Witness ==
    \E c \in Calls :
        /\ Len(graph[c]) >= 3 /\ Len(graph[c][1]) > 3
        /\ graph[c] = WallGrid(Len(graph[c]), Len(graph[c][1]), 2)
        /\ start[c] = <<0, 0>> /\ end[c] = <<2, 0>>
        /\ ReturnedPath(c)
        /\ result[c].cells[4] = <<1, 2>>

\* C15: on every rectangular grid, with any start and goal, every run reaches
\* the return of a path or the return of None, and the number of pushes onto
\* the frontier never exceeds the number of grid cells plus one.
C15_TerminatesWithBoundedPushes ==
    /\ [](\A c \in Calls : Len(pushed[c]) <= Cardinality(AllCells(graph[c])) + 1)
    /\ <>(\A c \in Calls : ReturnedPath(c) \/ ReturnedNone(c))

\* a call returned None after pushing once for its start, which is not a cell
\* of the grid, and once for each of the four cells
C15_Witness ==
    \E c \in Calls :
        /\ ReturnedNone(c)
        /\ start[c] \notin AllCells(graph[c])
        /\ Cardinality(AllCells(graph[c])) = 4
        /\ Len(pushed[c]) = 5

\* C16: in every step the recorded distance of each cell stays the same or
\* strictly decreases, never rises, and the distance of start is 0 from the
\* moment the distances are set up.
C16_DistancesNeverRise ==
    [][\A c \in Calls :
          /\ \A n \in DOMAIN distances[c] :
                /\ n \in DOMAIN distances'[c]
                /\ distances'[c][n] <= distances[c][n]
          /\ pc'[c] # "call" => distances'[c][start[c]] = 0]_vars

\* a later cell has been given a distance of two hops while another cell is
\* still at infinity
C16_Witness ==
    \E c \in Calls :
        /\ pc[c] = "neighbors"
        /\ distances[c][start[c]] = 0
        /\ \E n \in DOMAIN distances[c] : distances[c][n] = 2
        /\ \E n \in DOMAIN distances[c] : distances[c][n] = Inf

\* C17: in every state each cell's recorded distance is infinite or the hop
\* count of a 4-directional path from start to the cell over open cells, and
\* a finite recorded distance is never below the least hop count of such paths.
C17_DistanceIsAPathLength ==
    \A c \in Calls :
        Finite(distances[c]) # {} =>
            LET ends == WalkEnds(graph[c], start[c], Farthest(distances[c]))
            IN  \A n \in Finite(distances[c]) :
                    /\ distances[c][n] >= 0
                    /\ n \in ends[distances[c][n] + 1]
                    /\ \E least \in 0 .. distances[c][n] :
                          /\ n \in ends[least + 1]
                          /\ \A fewer \in 0 .. least - 1 : n \notin ends[fewer + 1]

\* a cell four hops from start has its distance while the search is going on
C17_Witness ==
    \E c \in Calls :
        /\ pc[c] = "neighbors"
        /\ \E n \in Finite(distances[c]) :
              /\ distances[c][n] = 4
              /\ Manhattan(start[c], n) = 2

\* the pop recorded as p passed the test of line 57: its cell is finalized
Finalizes(p) == ~(p[1] > p[3])

\* the pops of call c that finalized a cell, as indices into popped[c]
Finalizing(c) == {i \in 1 .. Len(popped[c]) : Finalizes(popped[c][i])}

\* C18: within one search each cell is finalized at most once: at most one pop
\* of the cell passes the staleness test, its cost equal to the cell's recorded
\* distance, and at that pop the recorded distance is the least hop count of
\* the paths from start to the cell.
C18_FinalizedOnceAtShortest ==
    \A c \in Calls :
        Finalizing(c) # {} =>
            LET far == popped[c][CHOOSE i \in Finalizing(c) :
                           \A j \in Finalizing(c) : popped[c][j][3] <= popped[c][i][3]][3]
                ends == WalkEnds(graph[c], start[c], far)
            IN  \A i \in Finalizing(c) :
                    /\ \A j \in Finalizing(c) : popped[c][j][2] = popped[c][i][2] => j = i
                    /\ popped[c][i][1] = popped[c][i][3]
                    /\ popped[c][i][3] >= 0
                    /\ popped[c][i][2] \in ends[popped[c][i][3] + 1]
                    /\ \A fewer \in 0 .. popped[c][i][3] - 1 : popped[c][i][2] \notin ends[fewer + 1]

\* five cells have been finalized, the last one three hops or more from start
C18_Witness ==
    \E c \in Calls :
        /\ Cardinality(Finalizing(c)) >= 5
        /\ Finalizes(popped[c][Len(popped[c])])
        /\ popped[c][Len(popped[c])][3] >= 3

\* the cells met by following the predecessor map prev from n, for at most
\* fuel steps
RECURSIVE ChainFrom(_, _, _)
ChainFrom(prev, n, fuel) ==
    IF n \notin DOMAIN prev \/ fuel = 0
    THEN <<n>>
    ELSE <<n>> \o ChainFrom(prev, prev[n], fuel - 1)

\* C19: in every state, following the predecessor map from any cell that has
\* a predecessor visits no cell twice and ends at start, and each step goes to
\* a cell whose recorded distance is strictly smaller.
C19_PredecessorChainDescends ==
    \A c \in Calls :
        \A n \in DOMAIN previous_nodes[c] :
            LET chain == ChainFrom(previous_nodes[c], n, Cardinality(DOMAIN previous_nodes[c]))
            IN  /\ previous_nodes[c][n] \in DOMAIN distances[c]
                /\ distances[c][previous_nodes[c][n]] < distances[c][n]
                /\ chain[Len(chain)] = start[c]
                /\ \A i, j \in 1 .. Len(chain) : chain[i] = chain[j] => i = j

\* a cell has a chain of four steps back to start
C19_Witness ==
    \E c \in Calls :
        \E n \in DOMAIN previous_nodes[c] :
            /\ Len(ChainFrom(previous_nodes[c], n, Cardinality(DOMAIN previous_nodes[c]))) = 5
            /\ distances[c][n] = 4

\* the cells call c has finalized
FinalizedCells(c) == {popped[c][i][2] : i \in Finalizing(c)}

\* the state of cell n in call c: Unvisited (0) while its distance is infinite,
\* Frontier (1) once it has a tentative distance, Finalized (2) once a pop of
\* it has passed the staleness test
CellState(c, n) ==
    IF n \in FinalizedCells(c) THEN 2 ELSE IF distances[c][n] # Inf THEN 1 ELSE 0

\* the entry the step has pushed, if it has pushed one
JustPushed(c) == IF Len(pushed'[c]) > Len(pushed[c]) THEN {pushed'[c][Len(pushed'[c])]} ELSE {}

\* the pop the step has made, if it has made one
JustPopped(c) == IF Len(popped'[c]) > Len(popped[c]) THEN {popped'[c][Len(popped'[c])]} ELSE {}

\* C20: no step moves a cell backward in Unvisited -> Frontier -> Finalized,
\* and once a cell is finalized no later step changes its recorded distance or
\* its predecessor, pushes an entry for it, or pops it again for expansion.
C20_CellStatesOnlyForward ==
    [][\A c \in Calls :
          /\ \A n \in DOMAIN distances[c] :
                /\ n \in DOMAIN distances'[c]
                /\ CellState(c, n)' >= CellState(c, n)
          /\ \A n \in FinalizedCells(c) :
                /\ distances'[c][n] = distances[c][n]
                /\ (n \in DOMAIN previous_nodes'[c]) = (n \in DOMAIN previous_nodes[c])
                /\ n \in DOMAIN previous_nodes[c] => previous_nodes'[c][n] = previous_nodes[c][n]
                /\ \A e \in JustPushed(c) : e[2] # n
                /\ \A p \in JustPopped(c) : Finalizes(p) => p[2] # n]_vars

\* a finalized cell is looked at again as the neighbour of the cell being
\* expanded, while another cell is on the frontier and a third still unvisited
C20_Witness ==
    \E c \in Calls :
        /\ pc[c] = "neighbors"
        /\ NeighborNode(c) \in FinalizedCells(c)
        /\ NeighborNode(c) # start[c]
        /\ \E n \in DOMAIN distances[c] : CellState(c, n) = 1
        /\ \E n \in DOMAIN distances[c] : CellState(c, n) = 0

\* call c takes the step of the for loop for one neighbour
NeighborStep(c) == pc[c] = "neighbors" /\ (k'[c] # k[c] \/ pc'[c] # pc[c])

\* C21: the step for one neighbour acts on it only when it is in bounds, open
\* and current cost + 1 is strictly below its recorded distance; it then sets
\* the neighbour's distance to current cost + 1, its predecessor to the current
\* cell and pushes (current cost + 1, neighbour), all in the one step; otherwise
\* the distances, the predecessors and the frontier are as they were.
C21_RelaxationFrame ==
    [][\A c \in Calls :
          NeighborStep(c) =>
              LET n == NeighborNode(c)
                  cost == current_distance[c] + 1
              IN  IF n \in AllCells(graph[c]) /\ IsOpen(graph[c], n) /\ cost < distances[c][n]
                  THEN /\ DOMAIN distances'[c] = DOMAIN distances[c]
                       /\ distances'[c][n] = cost
                       /\ \A m \in DOMAIN distances[c] \ {n} : distances'[c][m] = distances[c][m]
                       /\ DOMAIN previous_nodes'[c] = DOMAIN previous_nodes[c] \cup {n}
                       /\ previous_nodes'[c][n] = current_node[c]
                       /\ \A m \in DOMAIN previous_nodes[c] \ {n} :
                             previous_nodes'[c][m] = previous_nodes[c][m]
                       /\ priority_queue'[c] = priority_queue[c] (+) SetToBag({<<cost, n>>})
                       /\ pushed'[c] = Append(pushed[c], <<cost, n>>)
                  ELSE /\ distances'[c] = distances[c]
                       /\ previous_nodes'[c] = previous_nodes[c]
                       /\ priority_queue'[c] = priority_queue[c]
                       /\ pushed'[c] = pushed[c]]_vars

\* after some relaxations the for loop is at an open cell of the grid that
\* another cell has already reached at the same cost
C21_Witness ==
    \E c \in Calls :
        /\ pc[c] = "neighbors"
        /\ Len(pushed[c]) >= 3
        /\ NeighborNode(c) \in AllCells(graph[c])
        /\ IsOpen(graph[c], NeighborNode(c))
        /\ distances[c][NeighborNode(c)] = current_distance[c] + 1
        /\ previous_nodes[c][NeighborNode(c)] # current_node[c]

\* call c has popped end and is building or has returned the path
Found(c) == pc[c] = "reconstruct" \/ ReturnedPath(c)

\* C22: the search stops at the first pop of end that passes the staleness
\* test, without looking at end's neighbours: from then on end is the last pop
\* and was not finalized before, no cell has end as its predecessor unless end
\* is start, end's recorded distance is the least hop count from start, and no
\* finite recorded distance is above end's recorded distance plus 1.
C22_StopsAtGoal ==
    \A c \in Calls :
        Found(c) =>
            /\ popped[c] # <<>>
            /\ popped[c][Len(popped[c])][2] = end[c]
            /\ Finalizes(popped[c][Len(popped[c])])
            /\ \A i \in 1 .. Len(popped[c]) - 1 : popped[c][i][2] # end[c]
            /\ \A m \in DOMAIN previous_nodes[c] : previous_nodes[c][m] # end[c]
            /\ \A i \in 1 .. Len(pushed[c]) : pushed[c][i][1] <= distances[c][end[c]] + 1
            /\ distances[c][end[c]] = ShortestHops(graph[c], start[c], end[c])
            /\ \A n \in Finite(distances[c]) : distances[c][n] <= distances[c][end[c]] + 1

\* a path of two hops or more was returned while one cell is a hop farther
\* than end, another cell next to end is still unvisited
C22_Witness ==
    \E c \in Calls :
        /\ ReturnedPath(c)
        /\ distances[c][end[c]] >= 2
        /\ \E n \in Finite(distances[c]) : distances[c][n] = distances[c][end[c]] + 1
        /\ \E n \in OpenCells(graph[c]) : Adjacent(n, end[c]) /\ distances[c][n] = Inf

\* the end of call c is outside the grid or on an obstacle, and is not start
BadGoal(c) == ~IsOpen(graph[c], end[c]) /\ end[c] # start[c]

\* C23: when end is out of bounds or on a blocked cell and differs from start,
\* no step of the search raises, end is never pushed onto the frontier, and
\* the call returns None.
C23_BadGoalReturnsNone ==
    /\ [](\A c \in Calls :
            BadGoal(c) =>
                /\ ~Raises(c)
                /\ pc[c] \notin {"raised", "reconstruct"}
                /\ \A i \in 1 .. Len(pushed[c]) : pushed[c][i][2] # end[c]
                /\ Returned(c) => result[c] = None)
    /\ <>(\A c \in Calls : BadGoal(c) => ReturnedNone(c))

\* None was returned for a blocked end after a cell next to it was expanded
C23_Witness ==
    \E c \in Calls :
        /\ BadGoal(c)
        /\ end[c] \in AllCells(graph[c])
        /\ ReturnedNone(c)
        /\ \E i \in 1 .. Len(popped[c]) : Adjacent(popped[c][i][2], end[c])

\* the start of call c is a blocked cell, or a coordinate outside the grid
\* one move away from a cell of the grid
BadStart(c) ==
    /\ ~IsOpen(graph[c], start[c])
    /\ start[c] \in AllCells(graph[c]) \/ \E n \in AllCells(graph[c]) : Adjacent(start[c], n)

\* the cells pushed at cost 1 by call c
PushedAtOne(c) == {pushed[c][i][2] : i \in {j \in 1 .. Len(pushed[c]) : pushed[c][j][1] = 1}}

\* C24: start's own state and bounds are never inspected: when start is a
\* blocked cell or an out-of-bounds coordinate next to the grid, no step
\* raises, the first expansion pushes start's open in-bounds neighbours as it
\* would for an open start, and when end can be reached from them the call
\* returns a shortest path whose first cell is that start.
C24_BadStartIsExpanded ==
    /\ [](\A c \in Calls :
            BadStart(c) =>
                /\ ~Raises(c)
                /\ pc[c] # "raised"
                /\ popped[c] # <<>> => popped[c][1] = <<0, start[c], 0>>
                /\ (Len(popped[c]) >= 2 \/ Returned(c)) /\ end[c] # start[c] =>
                       PushedAtOne(c) = Around(graph[c], {start[c]})
                /\ Returned(c) /\ Reachable(graph[c], start[c], end[c]) =>
                       /\ result[c].kind = "list"
                       /\ result[c].cells[1] = start[c]
                       /\ result[c].cells[Len(result[c].cells)] = end[c]
                       /\ Hops(c) = ShortestHops(graph[c], start[c], end[c])
                       /\ \A i \in 2 .. Len(result[c].cells) :
                             /\ IsOpen(graph[c], result[c].cells[i])
                             /\ Adjacent(result[c].cells[i - 1], result[c].cells[i]))
    /\ <>(\A c \in Calls :
            \/ ReturnedPath(c)
            \/ ~BadStart(c)
            \/ ~Reachable(graph[c], start[c], end[c]))

\* a path of three cells was returned whose first cell is outside the grid
C24_Witness ==
    \E c \in Calls :
        /\ BadStart(c)
        /\ start[c] \notin AllCells(graph[c])
        /\ ReturnedPath(c)
        /\ Len(result[c].cells) = 3
        /\ result[c].cells[1] = start[c]

\* a path of three cells was returned whose first cell is an obstacle
C24_WitnessBlocked ==
    \E c \in Calls :
        /\ BadStart(c)
        /\ start[c] \in AllCells(graph[c])
        /\ ReturnedPath(c)
        /\ Len(result[c].cells) = 3
        /\ result[c].cells[1] = start[c]

\* the pushes of call c that were for cell n, as indices into pushed[c]
PushesOf(c, n) == {i \in 1 .. Len(pushed[c]) : pushed[c][i][2] = n}

\* C25: every move costing 1, each cell is pushed at most once and its distance
\* written at most once after line 42 (it is infinite while the cell has no
\* push, and the cost of its one push ever after); the frontier never holds two
\* entries for one cell, and the staleness test succeeds for no pop made and
\* for no entry held.
C25_OnePushPerCell ==
    \A c \in Calls :
        /\ \A n \in DOMAIN distances[c] :
              /\ Cardinality(PushesOf(c, n)) <= 1
              /\ PushesOf(c, n) = {} => distances[c][n] = Inf
              /\ \A i \in PushesOf(c, n) : distances[c][n] = pushed[c][i][1]
        /\ \A x \in BagToSet(priority_queue[c]) :
              /\ CopiesIn(x, priority_queue[c]) = 1
              /\ \A y \in BagToSet(priority_queue[c]) : y[2] = x[2] => y = x
              /\ ~(x[1] > distances[c][x[2]])
        /\ \A i \in 1 .. Len(popped[c]) : Finalizes(popped[c][i])

\* every cell of an open 3x3 grid was pushed and popped, four of them having
\* been looked at from two cells
C25_Witness ==
    \E c \in Calls :
        /\ ReturnedPath(c)
        /\ NoObstacle(graph[c])
        /\ Len(graph[c]) = 3 /\ Len(graph[c][1]) = 3
        /\ Len(pushed[c]) = Cardinality(AllCells(graph[c]))
        /\ Len(popped[c]) = Cardinality(AllCells(graph[c]))

\* C26: the costs of the entries popped one after the other never go down,
\* and in every state the costs of the entries in the frontier take at most
\* two values, one the other plus 1.
C26_PopsAscendFrontierTwoLevels ==
    \A c \in Calls :
        /\ \A i \in 1 .. Len(popped[c]) - 1 : popped[c][i][1] <= popped[c][i + 1][1]
        /\ \A x, y \in BagToSet(priority_queue[c]) : x[1] - y[1] \in {-1, 0, 1}

\* after four pops the frontier holds entries at two costs
C26_Witness ==
    \E c \in Calls :
        /\ Len(popped[c]) >= 4
        /\ popped[c][Len(popped[c])][1] > popped[c][2][1]
        /\ \E x, y \in BagToSet(priority_queue[c]) : x[1] = y[1] + 1

\* C27: at the top of the while loop every frontier entry (cost, cell) has
\* cost at or above the cell's recorded distance, and every cell with a finite
\* recorded distance that is not finalized has a frontier entry at exactly
\* that distance.
C27_FrontierCoversOpenCells ==
    \A c \in Calls :
        pc[c] = "loop" =>
            /\ \A x \in BagToSet(priority_queue[c]) : x[1] >= distances[c][x[2]]
            /\ \A n \in Finite(distances[c]) \ FinalizedCells(c) :
                  <<distances[c][n], n>> \in BagToSet(priority_queue[c])

\* at the top of the loop, two cells finalized and two more waiting
C27_Witness ==
    \E c \in Calls :
        /\ pc[c] = "loop"
        /\ Cardinality(FinalizedCells(c)) >= 2
        /\ Cardinality(Finite(distances[c]) \ FinalizedCells(c)) >= 2

\* C28: start is never a key of the predecessor map, and the cells with a
\* predecessor are exactly the cells other than start with a finite recorded
\* distance; so the walk back stops at start and a returned path has end's
\* recorded distance + 1 cells, none of them twice.
C28_PredecessorKeys ==
    \A c \in Calls :
        /\ start[c] \notin DOMAIN previous_nodes[c]
        /\ DOMAIN previous_nodes[c] = Finite(distances[c]) \ {start[c]}
        /\ ReturnedPath(c) =>
              /\ result[c].cells[1] = start[c]
              /\ Len(result[c].cells) = distances[c][end[c]] + 1
              /\ \A i, j \in 1 .. Len(result[c].cells) :
                    result[c].cells[i] = result[c].cells[j] => i = j

\* a path of five cells was returned
C28_Witness ==
    \E c \in Calls :
        /\ ReturnedPath(c)
        /\ Len(result[c].cells) = 5
        /\ Cardinality(DOMAIN previous_nodes[c]) >= 5

\* the call is the one the example makes
ShippedCall(c) ==
    graph[c] = GAME_MAP /\ start[c] = <<0, 0>> /\ end[c] = <<6, 6>>

\* C29: dijkstra(GAME_MAP, (0,0), (6,6)) on the 7x8 GAME_MAP returns a path,
\* not None, of exactly 13 cells that begins at (0,0), ends at (6,6) and
\* passes through no cell whose GAME_MAP value is 1.
C29_ShippedExample ==
    /\ [](\A c \in Calls :
            ShippedCall(c) /\ Returned(c) =>
                /\ Len(graph[c]) = 7 /\ \A r \in 1 .. 7 : Len(graph[c][r]) = 8
                /\ result[c] # None
                /\ result[c].kind = "list"
                /\ Len(result[c].cells) = 13
                /\ result[c].cells[1] = <<0, 0>>
                /\ result[c].cells[13] = <<6, 6>>
                /\ \A i \in 1 .. 13 :
                      /\ result[c].cells[i] \in (0 .. 6) \X (0 .. 7)
                      /\ GAME_MAP[result[c].cells[i][1] + 1][result[c].cells[i][2] + 1] # 1)
    /\ <>(\A c \in Calls : ShippedCall(c) => Returned(c))

\* the example's call has returned its path
C29_Witness ==
    \E c \in Calls :
        /\ ShippedCall(c)
        /\ ReturnedPath(c)
        /\ Len(result[c].cells) = 13
        /\ Len(popped[c]) > 13

====
